---- MODULE Spec2Model ----
(***************************************************************************)
(* State-machine model of the recipe API: RecipeViewSet and TagViewSet of  *)
(* app/recipe/views.py over the Recipe, Tag and recipe-tag tables.  Every  *)
(* action is one HTTP request handled from authentication to response.     *)
(***************************************************************************)
EXTENDS Integers, Sequences, FiniteSets, TLC

VARIABLES
    recipes,        \* Recipe table: set of rows [id, user, title, image]
    tags,           \* Tag table: set of rows [id, user, name]
    recipe_tags,    \* many-to-many table: set of <<recipe id, tag id>>
    nextRecipeId,   \* autoincrement of the Recipe table
    nextTagId,      \* autoincrement of the Tag table
    req,            \* the request handled last
    resp,           \* the response to it
    workers         \* requests in flight (interleaved specification only)

vars == <<recipes, tags, recipe_tags, nextRecipeId, nextTagId, req, resp, workers>>
db == <<recipes, tags, recipe_tags, nextRecipeId, nextTagId>>

----------------------------------------------------------------------------
(* Bounds of the model *)

MaxRecipeId == 2
MaxTagId == 2
MaxQsLen == 3
MaxTagsLen == 2

(* Input alphabets *)

Users == {"u1", "u2"}
Anonymous == "AnonymousUser"
Names == {"a", "b"}
Titles == {"t1"}
Missing == "missing"
NoImage == "null"
ValidImages == {"img1"}
ImagePayloads == ValidImages \cup {"notanimage", Missing}
QsAlphabet == {"1", "2", ",", "x"}

(* HTTP statuses *)

HTTP_200_OK == 200
HTTP_201_CREATED == 201
HTTP_204_NO_CONTENT == 204
HTTP_400_BAD_REQUEST == 400
HTTP_401_UNAUTHORIZED == 401
HTTP_404_NOT_FOUND == 404
HTTP_500_SERVER_ERROR == 500

----------------------------------------------------------------------------
(* Requests and responses *)

NoParam == [present |-> FALSE, str |-> <<>>]
Param(s) == [present |-> TRUE, str |-> s]
QueryStrings == UNION {[1..n -> QsAlphabet] : n \in 0..MaxQsLen}
QueryParams == {NoParam} \cup {Param(s) : s \in QueryStrings}
DetailQueryParams == {NoParam, Param(<<"x">>), Param(<<"1">>)}

NoTags == [present |-> FALSE, list |-> <<>>]
TagsList(L) == [present |-> TRUE, list |-> L]
TagLists == UNION {[1..n -> Names] : n \in 0..MaxTagsLen}
TagsPayloads == {NoTags} \cup {TagsList(L) : L \in TagLists}

NoData == [title |-> Missing, tags |-> NoTags, name |-> Missing, image |-> Missing]

Request(op, auth, pk, qs, data) ==
    [op |-> op, auth |-> auth, pk |-> pk, qs |-> qs, data |-> data]

Response(status, data, errors) ==
    [status |-> status, data |-> data, errors |-> errors]

NoRequest == Request("none", "none", 0, NoParam, NoData)
NoResponse == Response(0, <<>>, "")

RecipeDetailOps == {"retrieve", "update", "partial_update", "destroy", "upload_image"}
TagDetailOps == {"tag_update", "tag_partial_update", "tag_destroy"}

\* A request in flight in the interleaved specification
Workers == {1, 2}
IdleWorker == [pc |-> "idle", user |-> Anonymous, recipe |-> 0, todo |-> <<>>, missed |-> {}]

\* The worker is between two requests
Idle == req = NoRequest

----------------------------------------------------------------------------
(* Authentication and permission *)

Tokens == [k \in {"key1", "key2"} |-> IF k = "key1" THEN "u1" ELSE "u2"]
AuthHeaders == DOMAIN Tokens \cup {"none", "invalid"}

\* TokenAuthentication: a known key authenticates its user; a missing header or
\* an unknown key leaves the request without a user.
Authenticate(h) == IF h \in DOMAIN Tokens THEN Tokens[h] ELSE Anonymous

AllowAny(user) == TRUE

\* permission_classes = [IsAuthenticated]
IsAuthenticated(user) == user # Anonymous

NotAuthenticated == Response(HTTP_401_UNAUTHORIZED, <<>>, "not_authenticated")
NotFound == Response(HTTP_404_NOT_FOUND, <<>>, "not_found")
ServerError == Response(HTTP_500_SERVER_ERROR, <<>>, "server_error")
BadRequest == Response(HTTP_400_BAD_REQUEST, <<>>, "field_errors")

----------------------------------------------------------------------------
(* _params_to_ints: qs.split(',') then int() of every element *)

DigitValue ==
    "0" :> 0 @@ "1" :> 1 @@ "2" :> 2 @@ "3" :> 3 @@ "4" :> 4 @@
    "5" :> 5 @@ "6" :> 6 @@ "7" :> 7 @@ "8" :> 8 @@ "9" :> 9

\* str.split(','): the pieces between the commas, empty pieces included
RECURSIVE Split(_)
Split(s) ==
    IF \A i \in 1..Len(s) : s[i] # ","
    THEN <<s>>
    ELSE LET k == CHOOSE i \in 1..Len(s) :
                    s[i] = "," /\ \A j \in 1..(i - 1) : s[j] # ","
         IN  <<SubSeq(s, 1, k - 1)>> \o Split(SubSeq(s, k + 1, Len(s)))

\* int(str_id) succeeds on a non-empty run of decimal digits
IntParses(e) == Len(e) > 0 /\ \A i \in 1..Len(e) : e[i] \in DOMAIN DigitValue

RECURSIVE IntOf(_)
IntOf(e) ==
    IF Len(e) = 0 THEN 0
    ELSE 10 * IntOf(SubSeq(e, 1, Len(e) - 1)) + DigitValue[e[Len(e)]]

\* a conversion that skips the elements int() rejects
params_to_ints_lenient(qs) ==
    LET parts == SelectSeq(Split(qs), IntParses) IN
    [ok |-> TRUE, ids |-> [i \in 1..Len(parts) |-> IntOf(parts[i])]]

\* [int(str_id) for str_id in qs.split(',')]; ok = FALSE when int() raises
params_to_ints(qs) ==
    LET parts == Split(qs) IN
    IF \A i \in 1..Len(parts) : IntParses(parts[i])
    THEN [ok |-> TRUE, ids |-> [i \in 1..Len(parts) |-> IntOf(parts[i])]]
    ELSE [ok |-> FALSE, ids |-> <<>>]

----------------------------------------------------------------------------
(* Querysets: a queryset is the sequence of the recipe ids of its result   *)
(* rows; a join on the many-to-many table yields one row per association.  *)

RecipeIds == {r.id : r \in recipes}
TagIds == {t.id : t \in tags}
RecipeRow(id) == CHOOSE r \in recipes : r.id = id
TagRow(id) == CHOOSE t \in tags : t.id = id
TagsOf(rid) == {p[2] : p \in {q \in recipe_tags : q[1] = rid}}

RECURSIVE Repeat(_, _)
Repeat(x, n) == IF n = 0 THEN <<>> ELSE <<x>> \o Repeat(x, n - 1)

RECURSIVE Ascending(_)
Ascending(S) ==
    IF S = {} THEN <<>>
    ELSE LET m == CHOOSE x \in S : \A y \in S : x <= y
         IN  <<m>> \o Ascending(S \ {m})

\* Recipe.objects.all()
AllRecipes == Ascending(RecipeIds)

Range(s) == {s[i] : i \in 1..Len(s)}

\* queryset.filter(tags__id__in=tag_ids): inner join, one row per matching association
RECURSIVE FilterTagsIn(_, _)
FilterTagsIn(q, tag_ids) ==
    IF q = <<>> THEN <<>>
    ELSE Repeat(Head(q), Cardinality(TagsOf(Head(q)) \cap Range(tag_ids)))
            \o FilterTagsIn(Tail(q), tag_ids)

NoUserFilter(q, user) == q

\* queryset.filter(user=self.request.user)
FilterUser(q, user) == SelectSeq(q, LAMBDA id : RecipeRow(id).user = user)

\* queryset.order_by('-id')
RECURSIVE OrderByIdDesc(_)
OrderByIdDesc(q) ==
    IF q = <<>> THEN <<>>
    ELSE LET m == CHOOSE x \in Range(q) : \A y \in Range(q) : x >= y
         IN  SelectSeq(q, LAMBDA id : id = m)
                \o OrderByIdDesc(SelectSeq(q, LAMBDA id : id # m))

NoDistinct(q) == q

\* queryset.distinct()
RECURSIVE Distinct(_)
Distinct(q) ==
    IF q = <<>> THEN <<>>
    ELSE <<Head(q)>> \o Distinct(SelectSeq(Tail(q), LAMBDA id : id # Head(q)))

\* RecipeViewSet.get_queryset; ok = FALSE when _params_to_ints raises
get_queryset(user, qs) ==
    IF qs.present /\ qs.str # <<>>
    THEN LET parsed == params_to_ints(qs.str) IN
         IF parsed.ok
         THEN [ok |-> TRUE,
               rows |-> Distinct(OrderByIdDesc(FilterUser(
                            FilterTagsIn(AllRecipes, parsed.ids), user)))]
         ELSE [ok |-> FALSE, rows |-> <<>>]
    ELSE [ok |-> TRUE, rows |-> Distinct(OrderByIdDesc(FilterUser(AllRecipes, user)))]

----------------------------------------------------------------------------
(* RecipeViewSet *)

\* GET /recipes/
RecipeList(h, qs) ==
    LET user == Authenticate(h) IN
    /\ req' = Request("list", h, 0, qs, NoData)
    /\ IF ~IsAuthenticated(user)
       THEN resp' = NotAuthenticated
       ELSE LET q == get_queryset(user, qs) IN
            IF q.ok
            THEN resp' = Response(HTTP_200_OK, q.rows, "")
            ELSE resp' = ServerError
    /\ UNCHANGED <<db, workers>>

\* get_object(): the row of the scoped queryset with that primary key
get_object(user, qs, pk) ==
    LET q == get_queryset(user, qs) IN
    IF ~q.ok THEN [found |-> FALSE, error |-> ServerError]
    ELSE IF pk \in Range(q.rows) THEN [found |-> TRUE, error |-> NotFound]
    ELSE [found |-> FALSE, error |-> NotFound]

\* Tag.objects.get_or_create(user=auth_user, name=n) followed by recipe.tags.add,
\* for every element of the list in order.  pick[n] names the row a lookup
\* returns when the user owns several rows of that name.
RECURSIVE get_or_create_tags(_, _, _, _, _, _)
get_or_create_tags(user, L, pick, T, nxt, acc) ==
    IF L = <<>> THEN [tags |-> T, next |-> nxt, ids |-> acc]
    ELSE LET n == Head(L)
             owned == {t \in T : t.user = user /\ t.name = n}
         IN  IF owned # {}
             THEN LET t == IF \E o \in owned : o.id = pick[n]
                           THEN CHOOSE o \in owned : o.id = pick[n]
                           ELSE CHOOSE o \in owned : TRUE
                  IN  get_or_create_tags(user, Tail(L), pick, T, nxt, acc \cup {t.id})
             ELSE get_or_create_tags(user, Tail(L), pick,
                      T \cup {[id |-> nxt, user |-> user, name |-> n]},
                      nxt + 1, acc \cup {nxt})

\* The lookups a request can see: for a name the user owns, one of its rows
Picks(user, L) ==
    {pick \in [Names -> 0..MaxTagId] :
        \A n \in Names :
            LET owned == {t \in tags : t.user = user /\ t.name = n} IN
            IF n \in Range(L) /\ owned # {}
            THEN pick[n] \in {t.id : t \in owned}
            ELSE pick[n] = 0}

SaveAsOther(user) == CHOOSE u \in Users : u # user

\* perform_create: serializer.save(user=self.request.user)
perform_create_user(user) == user

\* RecipeSerializer.create: the recipe row, then the tags of the payload
serializer_create(owner, auth_user, data, pick) ==
    LET L == data.tags.list
        got == get_or_create_tags(auth_user, L, pick, tags, nextTagId, {})
    IN  /\ got.next <= MaxTagId + 1
        /\ recipes' = recipes \cup {[id |-> nextRecipeId, user |-> owner,
                                     title |-> data.title, image |-> NoImage]}
        /\ nextRecipeId' = nextRecipeId + 1
        /\ tags' = got.tags
        /\ nextTagId' = got.next
        /\ recipe_tags' = recipe_tags \cup {<<nextRecipeId, t>> : t \in got.ids}

\* POST /recipes/
RecipeCreate(h, data) ==
    LET user == Authenticate(h) IN
    /\ req' = Request("create", h, 0, NoParam, data)
    /\ IF ~IsAuthenticated(user)
       THEN resp' = NotAuthenticated /\ UNCHANGED db
       ELSE IF data.title = Missing
       THEN resp' = BadRequest /\ UNCHANGED db
       ELSE /\ nextRecipeId <= MaxRecipeId
            /\ \E pick \in Picks(user, data.tags.list) :
                   serializer_create(perform_create_user(user), user, data, pick)
            /\ resp' = Response(HTTP_201_CREATED, <<nextRecipeId>>, "")
    /\ UNCHANGED workers

\* GET /recipes/{pk}/
RecipeRetrieve(h, qs, pk) ==
    LET user == Authenticate(h) IN
    /\ req' = Request("retrieve", h, pk, qs, NoData)
    /\ IF ~IsAuthenticated(user)
       THEN resp' = NotAuthenticated
       ELSE LET obj == get_object(user, qs, pk) IN
            IF obj.found
            THEN resp' = Response(HTTP_200_OK, <<pk>>, "")
            ELSE resp' = obj.error
    /\ UNCHANGED <<db, workers>>

MergeTags(old, new) == old \cup new

\* instance.tags.clear() before the tags of the payload are set
ClearThenSet(old, new) == new

\* RecipeSerializer.update: the given fields, and the tags when the payload has them
serializer_update(auth_user, pk, data, pick) ==
    LET row == RecipeRow(pk)
        got == IF data.tags.present
               THEN get_or_create_tags(auth_user, data.tags.list, pick, tags, nextTagId, {})
               ELSE [tags |-> tags, next |-> nextTagId, ids |-> TagsOf(pk)]
        kept == IF data.tags.present THEN ClearThenSet(TagsOf(pk), got.ids) ELSE got.ids
    IN  /\ got.next <= MaxTagId + 1
        /\ recipes' = (recipes \ {row}) \cup
               {[row EXCEPT !.title = IF data.title = Missing THEN @ ELSE data.title]}
        /\ tags' = got.tags
        /\ nextTagId' = got.next
        /\ recipe_tags' = {p \in recipe_tags : p[1] # pk} \cup {<<pk, t>> : t \in kept}
        /\ UNCHANGED nextRecipeId

\* PUT (partial = FALSE) and PATCH (partial = TRUE) /recipes/{pk}/
RecipeUpdate(h, qs, pk, data, partial) ==
    LET user == Authenticate(h) IN
    /\ req' = Request(IF partial THEN "partial_update" ELSE "update", h, pk, qs, data)
    /\ IF ~IsAuthenticated(user)
       THEN resp' = NotAuthenticated /\ UNCHANGED db
       ELSE LET obj == get_object(user, qs, pk) IN
            IF ~obj.found
            THEN resp' = obj.error /\ UNCHANGED db
            ELSE IF ~partial /\ data.title = Missing
            THEN resp' = BadRequest /\ UNCHANGED db
            ELSE /\ \E pick \in Picks(user, data.tags.list) :
                        serializer_update(user, pk, data, pick)
                 /\ resp' = Response(HTTP_200_OK, <<pk>>, "")
    /\ UNCHANGED workers

\* DELETE /recipes/{pk}/
RecipeDestroy(h, qs, pk) ==
    LET user == Authenticate(h) IN
    /\ req' = Request("destroy", h, pk, qs, NoData)
    /\ IF ~IsAuthenticated(user)
       THEN resp' = NotAuthenticated /\ UNCHANGED db
       ELSE LET obj == get_object(user, qs, pk) IN
            IF ~obj.found
            THEN resp' = obj.error /\ UNCHANGED db
            ELSE /\ recipes' = recipes \ {RecipeRow(pk)}
                 /\ recipe_tags' = {p \in recipe_tags : p[1] # pk}
                 /\ UNCHANGED <<tags, nextRecipeId, nextTagId>>
                 /\ resp' = Response(HTTP_204_NO_CONTENT, <<>>, "")
    /\ UNCHANGED workers

AlwaysValid(image) == TRUE

\* RecipeImageSerializer.is_valid(): the image field holds a decodable image
image_is_valid(image) == image \in ValidImages

\* POST /recipes/{pk}/uploa-dimage
upload_image(h, qs, pk, image) ==
    LET user == Authenticate(h) IN
    /\ req' = Request("upload_image", h, pk, qs, [NoData EXCEPT !.image = image])
    /\ IF ~IsAuthenticated(user)
       THEN resp' = NotAuthenticated /\ UNCHANGED db
       ELSE LET obj == get_object(user, qs, pk) IN
            IF ~obj.found
            THEN resp' = obj.error /\ UNCHANGED db
            ELSE IF image_is_valid(image)
            THEN /\ recipes' = (recipes \ {RecipeRow(pk)})
                                  \cup {[RecipeRow(pk) EXCEPT !.image = image]}
                 /\ UNCHANGED <<tags, recipe_tags, nextRecipeId, nextTagId>>
                 /\ resp' = Response(HTTP_200_OK, <<pk>>, "")
            ELSE resp' = BadRequest /\ UNCHANGED db
    /\ UNCHANGED workers

----------------------------------------------------------------------------
(* TagViewSet *)

AllTags(user) == tags

\* TagViewSet.get_queryset without the ordering: the caller's rows
tag_queryset(user) == {t \in tags : t.user = user}

\* the collation of the tag names
NameRank == "a" :> 1 @@ "b" :> 2

\* order_by('-name'); rows of equal name come in any order
OrderedByNameDesc(S) ==
    {s \in [1..Cardinality(S) -> {t.id : t \in S}] :
        /\ \A i, j \in DOMAIN s : i # j => s[i] # s[j]
        /\ \A i, j \in DOMAIN s :
              i < j => NameRank[TagRow(s[i]).name] >= NameRank[TagRow(s[j]).name]}

\* GET /tags/
TagList(h) ==
    LET user == Authenticate(h) IN
    /\ req' = Request("tag_list", h, 0, NoParam, NoData)
    /\ IF ~IsAuthenticated(user)
       THEN resp' = NotAuthenticated
       ELSE \E s \in OrderedByNameDesc(tag_queryset(user)) :
                resp' = Response(HTTP_200_OK, s, "")
    /\ UNCHANGED <<db, workers>>

\* TagSerializer.update: the name of the payload is stored as given; no other
\* row of the user is looked at
tag_serializer_update(row, name) == [row EXCEPT !.name = IF name = Missing THEN @ ELSE name]

\* PUT (partial = FALSE) and PATCH (partial = TRUE) /tags/{pk}/
TagUpdate(h, pk, name, partial) ==
    LET user == Authenticate(h) IN
    /\ req' = Request(IF partial THEN "tag_partial_update" ELSE "tag_update", h, pk,
                      NoParam, [NoData EXCEPT !.name = name])
    /\ IF ~IsAuthenticated(user)
       THEN resp' = NotAuthenticated /\ UNCHANGED db
       ELSE IF pk \notin {t.id : t \in tag_queryset(user)}
       THEN resp' = NotFound /\ UNCHANGED db
       ELSE IF ~partial /\ name = Missing
       THEN resp' = BadRequest /\ UNCHANGED db
       ELSE /\ tags' = (tags \ {TagRow(pk)}) \cup {tag_serializer_update(TagRow(pk), name)}
            /\ UNCHANGED <<recipes, recipe_tags, nextRecipeId, nextTagId>>
            /\ resp' = Response(HTTP_200_OK, <<pk>>, "")
    /\ UNCHANGED workers

\* DELETE /tags/{pk}/
TagDestroy(h, pk) ==
    LET user == Authenticate(h) IN
    /\ req' = Request("tag_destroy", h, pk, NoParam, NoData)
    /\ IF ~IsAuthenticated(user)
       THEN resp' = NotAuthenticated /\ UNCHANGED db
       ELSE IF pk \notin {t.id : t \in tag_queryset(user)}
       THEN resp' = NotFound /\ UNCHANGED db
       ELSE /\ tags' = tags \ {TagRow(pk)}
            /\ recipe_tags' = {p \in recipe_tags : p[2] # pk}
            /\ UNCHANGED <<recipes, nextRecipeId, nextTagId>>
            /\ resp' = Response(HTTP_204_NO_CONTENT, <<>>, "")
    /\ UNCHANGED workers

----------------------------------------------------------------------------
Init ==
    /\ recipes = {}
    /\ tags = {}
    /\ recipe_tags = {}
    /\ nextRecipeId = 1
    /\ nextTagId = 1
    /\ req = NoRequest
    /\ resp = NoResponse
    /\ workers = [w \in Workers |-> IdleWorker]

\* The response is sent and the request's state is dropped
Respond ==
    /\ ~Idle
    /\ req' = NoRequest
    /\ resp' = NoResponse
    /\ UNCHANGED <<db, workers>>

RecipePks == 1..(MaxRecipeId + 1)
TagPks == 1..(MaxTagId + 1)
ValidHeaders == DOMAIN Tokens
RecipePayloads ==
    {[NoData EXCEPT !.title = t, !.tags = g] :
        t \in Titles \cup {Missing}, g \in TagsPayloads}

\* A request by an authenticated caller
Authenticated ==
    \/ \E h \in ValidHeaders, qs \in QueryParams : RecipeList(h, qs)
    \/ \E h \in ValidHeaders, data \in RecipePayloads : RecipeCreate(h, data)
    \/ \E h \in ValidHeaders, qs \in DetailQueryParams, pk \in RecipePks :
            RecipeRetrieve(h, qs, pk)
    \/ \E h \in ValidHeaders, qs \in DetailQueryParams, pk \in RecipePks,
            data \in RecipePayloads, partial \in BOOLEAN :
            RecipeUpdate(h, qs, pk, data, partial)
    \/ \E h \in ValidHeaders, qs \in DetailQueryParams, pk \in RecipePks :
            RecipeDestroy(h, qs, pk)
    \/ \E h \in ValidHeaders, qs \in DetailQueryParams, pk \in RecipePks,
            image \in ImagePayloads : upload_image(h, qs, pk, image)
    \/ \E h \in ValidHeaders : TagList(h)
    \/ \E h \in ValidHeaders, pk \in TagPks, name \in Names \cup {Missing},
            partial \in BOOLEAN : TagUpdate(h, pk, name, partial)
    \/ \E h \in ValidHeaders, pk \in TagPks : TagDestroy(h, pk)

\* A request without a valid token
AnonPayloads == {NoData, [NoData EXCEPT !.title = "t1", !.tags = TagsList(<<"a">>)]}
Unauthenticated ==
    \E h \in AuthHeaders \ ValidHeaders :
        \/ \E qs \in DetailQueryParams : RecipeList(h, qs)
        \/ \E data \in AnonPayloads : RecipeCreate(h, data)
        \/ \E pk \in RecipePks : RecipeRetrieve(h, NoParam, pk)
        \/ \E pk \in RecipePks, data \in AnonPayloads, partial \in BOOLEAN :
                RecipeUpdate(h, NoParam, pk, data, partial)
        \/ \E pk \in RecipePks : RecipeDestroy(h, NoParam, pk)
        \/ \E pk \in RecipePks, image \in ImagePayloads :
                upload_image(h, NoParam, pk, image)
        \/ TagList(h)
        \/ \E pk \in TagPks, name \in Names, partial \in BOOLEAN :
                TagUpdate(h, pk, name, partial)
        \/ \E pk \in TagPks : TagDestroy(h, pk)

Next ==
    \/ Idle /\ Authenticated
    \/ Idle /\ Unauthenticated
    \/ Respond

Spec == Init /\ [][Next]_vars

----------------------------------------------------------------------------
(* Properties of the sequential API *)

Caller == Authenticate(req.auth)
CallerNext == Authenticate(req'.auth)
TagsIn(RT, rid) == {p[2] : p \in {q \in RT : q[1] = rid}}
RowIn(table, id) == CHOOSE r \in table : r.id = id
OwnRecipeIds(user) == {r.id : r \in {x \in recipes : x.user = user}}
OwnTagIds(user) == {t.id : t \in {x \in tags : x.user = user}}
NoDuplicates(s) == Cardinality(Range(s)) = Len(s)

\* C1: a list answers only with rows of the caller: the recipe list (with or
\* without a tags filter) holds only recipes the caller owns, the tag list
\* only tags the caller owns.
C1_ListOwnerScoped ==
    /\ req.op = "list" =>
          \A i \in DOMAIN resp.data : resp.data[i] \in OwnRecipeIds(Caller)
    /\ req.op = "tag_list" =>
          \A i \in DOMAIN resp.data : resp.data[i] \in OwnTagIds(Caller)

\* a filtered list that names a tag of another user's recipe and still returns rows
C1_Witness ==
    /\ req.op = "list" /\ resp.status = HTTP_200_OK /\ resp.data # <<>>
    /\ req.qs.present /\ req.qs.str # <<>>
    /\ \E p \in recipe_tags :
          /\ RecipeRow(p[1]).user # Caller
          /\ p[2] \in Range(params_to_ints(req.qs.str).ids)

\* C3: a request without a valid token is answered 401 with no data and
\* changes no table.
C3_UnauthenticatedRejected ==
    [][(Idle /\ req'.op # "none" /\ CallerNext \notin Users)
          => (resp' = NotAuthenticated /\ UNCHANGED db)]_vars

\* an unauthenticated create was rejected while the tables hold rows
C3_Witness ==
    /\ req.op = "create" /\ req.auth = "invalid" /\ req.data.title # Missing
    /\ resp.status = HTTP_401_UNAUTHORIZED
    /\ recipes # {} /\ tags # {}

\* C2: a detail request by an authenticated user for a recipe or tag id owned
\* by another user is answered like one for an id that does not exist, with
\* not-found, and changes no table.  (With a tags query parameter on the
\* route the response still carries no data and no table changes.)
C2_CrossUserNotFound ==
    [][(/\ Idle
        /\ CallerNext \in Users
        /\ \/ req'.op \in RecipeDetailOps /\ req'.pk \notin OwnRecipeIds(CallerNext)
           \/ req'.op \in TagDetailOps /\ req'.pk \notin OwnTagIds(CallerNext))
          => (/\ UNCHANGED db
              /\ resp'.data = <<>>
              /\ resp'.status \notin {HTTP_200_OK, HTTP_201_CREATED, HTTP_204_NO_CONTENT}
              /\ ~req'.qs.present => resp' = NotFound)]_vars

\* a delete of another user's recipe was answered not-found
C2_Witness ==
    /\ req.op = "destroy" /\ Caller \in Users /\ ~req.qs.present
    /\ req.pk \in RecipeIds /\ RecipeRow(req.pk).user # Caller
    /\ TagsOf(req.pk) # {}
    /\ resp = NotFound

\* decimal rendering of a tag id, and of a comma-separated list of them
RECURSIVE Digits(_)
Digits(n) ==
    LET d == CHOOSE c \in DOMAIN DigitValue : DigitValue[c] = n % 10 IN
    IF n < 10 THEN <<d>> ELSE Digits(n \div 10) \o <<d>>

RECURSIVE JoinIds(_)
JoinIds(T) ==
    IF Len(T) = 1 THEN Digits(T[1]) ELSE Digits(T[1]) \o <<",">> \o JoinIds(Tail(T))

IdLists == UNION {[1..n -> 0..(MaxTagId + 1)] : n \in 1..MaxTagsLen}

\* C4: the recipe list with tags=T answers with exactly the caller's recipes
\* that have at least one tag id of T, each once.
C4_TagFilterExact ==
    \A T \in IdLists :
        (req.op = "list" /\ Caller \in Users /\ req.qs.present /\ req.qs.str = JoinIds(T))
          => /\ resp.status = HTTP_200_OK
             /\ Range(resp.data) =
                    {r \in OwnRecipeIds(Caller) : TagsOf(r) \cap Range(T) # {}}
             /\ NoDuplicates(resp.data)

\* the filter names two tags of one recipe, and leaves out another recipe of the caller
C4_Witness ==
    /\ req.op = "list" /\ resp.status = HTTP_200_OK /\ req.qs.present
    /\ \E T \in IdLists :
          /\ req.qs.str = JoinIds(T)
          /\ \E r \in Range(resp.data) : Cardinality(TagsOf(r) \cap Range(T)) >= 2
    /\ \E r \in OwnRecipeIds(Caller) : r \notin Range(resp.data)

\* every tag of a recipe is owned by the recipe's owner
TagOwnerInv ==
    \A p \in recipe_tags :
        /\ p[1] \in RecipeIds /\ p[2] \in TagIds
        /\ TagRow(p[2]).user = RecipeRow(p[1]).user

\* what one create request does to the tables
C5_CreateStep ==
    (/\ Idle /\ req'.op = "create" /\ CallerNext \in Users
     /\ req'.data.title # Missing /\ NoDuplicates(req'.data.tags.list))
      => LET u == CallerNext
             L == req'.data.tags.list
             ownedNames == {t.name : t \in {x \in tags : x.user = u}}
             new == recipes' \ recipes
             newTags == tags' \ tags
         IN  /\ resp'.status = HTTP_201_CREATED
             /\ recipes \subseteq recipes' /\ Cardinality(new) = 1
             /\ \A r \in new :
                   /\ r.user = u /\ r.id \notin RecipeIds
                   /\ Cardinality(TagsIn(recipe_tags', r.id)) = Len(L)
                   /\ \A t \in TagsIn(recipe_tags', r.id) : RowIn(tags', t).user = u
                   /\ {RowIn(tags', t).name : t \in TagsIn(recipe_tags', r.id)} = Range(L)
                   /\ newTags \subseteq {RowIn(tags', t) : t \in TagsIn(recipe_tags', r.id)}
                   /\ recipe_tags' \ recipe_tags = {<<r.id, t>> : t \in TagsIn(recipe_tags', r.id)}
             /\ tags \subseteq tags' /\ recipe_tags \subseteq recipe_tags'
             /\ {t.name : t \in newTags} = Range(L) \ ownedNames
             /\ Cardinality(newTags) = Cardinality(Range(L) \ ownedNames)

\* C5: a create by user U with n distinct tag names adds one recipe, owned by
\* U, with exactly n tags owned by U that carry the names; owned names reuse
\* their row, the others get a new row.  Every tag of a recipe is owned by
\* the recipe's owner.
C5_CreateWithTags == [][C5_CreateStep]_vars /\ []TagOwnerInv

\* a create with two names, one reusing a tag of another recipe, one new
C5_Witness ==
    /\ req.op = "create" /\ resp.status = HTTP_201_CREATED
    /\ Len(req.data.tags.list) = 2 /\ NoDuplicates(req.data.tags.list)
    /\ \E t \in TagsOf(resp.data[1]) : \E p \in recipe_tags : p[2] = t /\ p[1] # resp.data[1]
    /\ \E t \in TagsOf(resp.data[1]) : \A p \in recipe_tags : p[2] = t => p[1] = resp.data[1]

\* what one update request that carries a tags list does to the tables
C6_UpdateStep ==
    /\ (/\ Idle /\ req'.op \in {"update", "partial_update"}
        /\ CallerNext \in Users /\ req'.pk \in OwnRecipeIds(CallerNext)
        /\ ~req'.qs.present
        /\ req'.op = "partial_update" \/ req'.data.title # Missing)
          => resp'.status = HTTP_200_OK
    /\ (/\ Idle /\ req'.op \in {"update", "partial_update"}
        /\ resp'.status = HTTP_200_OK /\ req'.data.tags.present)
      => LET u == CallerNext
             L == req'.data.tags.list
             pk == req'.pk
         IN  /\ \A t \in TagsIn(recipe_tags', pk) : t \in {x.id : x \in tags'} /\ RowIn(tags', t).user = u
             /\ {RowIn(tags', t).name : t \in TagsIn(recipe_tags', pk)} = Range(L)
             /\ Cardinality(TagsIn(recipe_tags', pk)) = Cardinality(Range(L))
             /\ tags \subseteq tags'
             /\ \A r \in RecipeIds \ {pk} : TagsIn(recipe_tags', r) = TagsOf(r)

\* C6: an update or partial_update that carries a tags list L replaces the
\* recipe's tags: afterwards they are the caller's tags named in L, one per
\* name, and no Tag row is deleted.
C6_UpdateReplacesTags == [][C6_UpdateStep]_vars

\* a patch with an empty list left the recipe without tags while the caller's tags remain
C6_WitnessCleared ==
    /\ req.op = "partial_update" /\ resp.status = HTTP_200_OK
    /\ req.data.tags.present /\ req.data.tags.list = <<>>
    /\ TagsOf(req.pk) = {}
    /\ Cardinality(OwnTagIds(Caller)) = 2
    /\ \A t \in OwnTagIds(Caller) : \A p \in recipe_tags : p[2] # t

\* C7: no user owns two Tag rows of the same name.
C7_UniquePerUserName ==
    \A t1, t2 \in tags : (t1.user = t2.user /\ t1.name = t2.name) => t1.id = t2.id

\* what one upload request of the owner does
C8_UploadStep ==
    (/\ Idle /\ req'.op = "upload_image" /\ CallerNext \in Users
     /\ req'.pk \in OwnRecipeIds(CallerNext))
      => /\ req'.data.image \notin ValidImages =>
               /\ UNCHANGED db
               /\ ~req'.qs.present => resp' = BadRequest
         /\ (req'.data.image \in ValidImages /\ ~req'.qs.present) =>
               /\ resp' = Response(HTTP_200_OK, <<req'.pk>>, "")
               /\ RowIn(recipes', req'.pk) = [RowIn(recipes, req'.pk) EXCEPT !.image = req'.data.image]
               /\ \A r \in recipes : r.id # req'.pk => r \in recipes'
               /\ UNCHANGED <<tags, recipe_tags, nextRecipeId, nextTagId>>
         /\ (recipes' # recipes \/ resp'.status = HTTP_200_OK) =>
               req'.data.image \in ValidImages

\* C8: an upload by the owner with a payload that is no decodable image is
\* answered 400 with the validation errors and changes nothing; an image is
\* stored only from a valid payload, answered 200 with the resource.
C8_UploadImage == [][C8_UploadStep]_vars

\* a payload that is no image was rejected for a recipe that has an image
C8_Witness ==
    /\ req.op = "upload_image" /\ req.data.image = "notanimage"
    /\ resp = BadRequest
    /\ req.pk \in OwnRecipeIds(Caller) /\ RecipeRow(req.pk).image # NoImage

\* an element between commas that is no run of digits: a character that is
\* neither digit nor comma, a leading, trailing or doubled comma
HasBadElement(s) ==
    \/ \E i \in 1..Len(s) : s[i] \notin DOMAIN DigitValue \cup {","}
    \/ s[1] = "," \/ s[Len(s)] = ","
    \/ \E i \in 1..(Len(s) - 1) : s[i] = "," /\ s[i + 1] = ","

\* C10: a recipe list whose non-empty tags parameter has an element that is
\* no integer fails in the conversion: a server error without rows, not a
\* field-keyed 400.  Without the parameter, or with an empty one, the list
\* is the caller's recipes, unfiltered.
C10_MalformedTags ==
    (req.op = "list" /\ Caller \in Users)
      => /\ (req.qs.present /\ req.qs.str # <<>> /\ HasBadElement(req.qs.str))
               => /\ resp.status = HTTP_500_SERVER_ERROR
                  /\ resp.data = <<>>
                  /\ resp.errors # "field_errors"
         /\ (~req.qs.present \/ req.qs.str = <<>>)
               => /\ resp.status = HTTP_200_OK
                  /\ Range(resp.data) = OwnRecipeIds(Caller)

\* a trailing comma failed the list of a caller who owns a tagged recipe
C10_Witness ==
    /\ req.op = "list" /\ req.qs.present /\ req.qs.str = <<"1", ",">>
    /\ resp.status = HTTP_500_SERVER_ERROR
    /\ \E r \in OwnRecipeIds(Caller) : 1 \in TagsOf(r)

----------------------------------------------------------------------------
(* Interleaved recipe writes: each request runs on its own worker, and the *)
(* lookup and the insert of a tag's get-or-create are separate statements  *)
(* on the shared tables.                                                   *)

\* serializer.save(user=...) of a create: the recipe row is inserted, the tags follow
ConcBeginCreate(w, h, data) ==
    LET user == Authenticate(h) IN
    /\ workers[w].pc = "idle"
    /\ IsAuthenticated(user) /\ data.title # Missing
    /\ nextRecipeId <= MaxRecipeId
    /\ recipes' = recipes \cup {[id |-> nextRecipeId, user |-> perform_create_user(user),
                                 title |-> data.title, image |-> NoImage]}
    /\ nextRecipeId' = nextRecipeId + 1
    /\ workers' = [workers EXCEPT ![w] = [pc |-> "tags", user |-> user,
                      recipe |-> nextRecipeId, todo |-> data.tags.list, missed |-> {}]]
    /\ UNCHANGED <<tags, recipe_tags, nextTagId, req, resp>>

\* serializer.save() of an update with a tags list: the associations are cleared first
ConcBeginUpdate(w, h, pk, data) ==
    LET user == Authenticate(h) IN
    /\ workers[w].pc = "idle"
    /\ IsAuthenticated(user) /\ data.tags.present
    /\ get_object(user, NoParam, pk).found
    /\ recipe_tags' = {p \in recipe_tags : p[1] # pk}
    /\ workers' = [workers EXCEPT ![w] = [pc |-> "tags", user |-> user,
                      recipe |-> pk, todo |-> data.tags.list, missed |-> {}]]
    /\ UNCHANGED <<recipes, tags, nextRecipeId, nextTagId, req, resp>>

\* the lookup of get-or-create for the next name: a row of the user is
\* associated, or the name is found missing
ConcLookup(w) ==
    LET me == workers[w]
        n == Head(me.todo)
        owned == {t \in tags : t.user = me.user /\ t.name = n}
    IN  /\ me.pc = "tags" /\ me.todo # <<>>
        /\ IF owned # {}
           THEN /\ \E t \in owned : recipe_tags' = recipe_tags \cup {<<me.recipe, t.id>>}
                /\ workers' = [workers EXCEPT ![w].todo = Tail(me.todo)]
           ELSE /\ workers' = [workers EXCEPT ![w].pc = "create",
                                               ![w].missed = @ \cup {n}]
                /\ UNCHANGED recipe_tags
        /\ UNCHANGED <<recipes, tags, nextRecipeId, nextTagId, req, resp>>

\* an insert that looks the name up again and reuses a row that has appeared
ConcCreateAtomic(w) ==
    LET me == workers[w]
        n == Head(me.todo)
        owned == {t \in tags : t.user = me.user /\ t.name = n}
    IN  /\ me.pc = "create"
        /\ owned # {} \/ nextTagId <= MaxTagId
        /\ IF owned # {}
           THEN /\ \E t \in owned : recipe_tags' = recipe_tags \cup {<<me.recipe, t.id>>}
                /\ UNCHANGED <<tags, nextTagId>>
           ELSE /\ tags' = tags \cup {[id |-> nextTagId, user |-> me.user, name |-> n]}
                /\ nextTagId' = nextTagId + 1
                /\ recipe_tags' = recipe_tags \cup {<<me.recipe, nextTagId>>}
        /\ workers' = [workers EXCEPT ![w].pc = "tags", ![w].todo = Tail(me.todo)]
        /\ UNCHANGED <<recipes, nextRecipeId, req, resp>>

\* the insert of get-or-create after a lookup that found nothing
ConcCreate(w) ==
    LET me == workers[w]
        n == Head(me.todo)
    IN  /\ me.pc = "create"
        /\ nextTagId <= MaxTagId
        /\ tags' = tags \cup {[id |-> nextTagId, user |-> me.user, name |-> n]}
        /\ nextTagId' = nextTagId + 1
        /\ recipe_tags' = recipe_tags \cup {<<me.recipe, nextTagId>>}
        /\ workers' = [workers EXCEPT ![w].pc = "tags", ![w].todo = Tail(me.todo)]
        /\ UNCHANGED <<recipes, nextRecipeId, req, resp>>

\* all tags of the payload are set: the request is answered
ConcFinish(w) ==
    /\ workers[w].pc = "tags" /\ workers[w].todo = <<>>
    /\ workers' = [workers EXCEPT ![w].pc = "done"]
    /\ UNCHANGED <<db, req, resp>>

\* the worker takes the next request
ConcRelease(w) ==
    /\ workers[w].pc = "done"
    /\ workers' = [workers EXCEPT ![w] = IdleWorker]
    /\ UNCHANGED <<db, req, resp>>

ConcPayloads ==
    {[NoData EXCEPT !.title = t, !.tags = TagsList(L)] : t \in Titles, L \in TagLists}

ConcNext ==
    \E w \in Workers :
        \/ \E h \in ValidHeaders, data \in ConcPayloads : ConcBeginCreate(w, h, data)
        \/ \E h \in ValidHeaders, pk \in RecipePks, data \in ConcPayloads :
                ConcBeginUpdate(w, h, pk, data)
        \/ ConcLookup(w)
        \/ ConcCreate(w)
        \/ ConcFinish(w)
        \/ ConcRelease(w)

ConcSpec == Init /\ [][ConcNext]_vars

SameNameRows(user, n) == {t \in tags : t.user = user /\ t.name = n}

\* C9: two requests of one user in flight together that both looked a name
\* up and both found nothing both insert it: afterwards the user owns two
\* Tag rows of that name.
C9_RaceDuplicates ==
    \A w1, w2 \in Workers : \A n \in Names :
        (/\ w1 # w2
         /\ workers[w1].pc = "done" /\ workers[w2].pc = "done"
         /\ workers[w1].user = workers[w2].user
         /\ n \in workers[w1].missed \cap workers[w2].missed)
          => Cardinality(SameNameRows(workers[w1].user, n)) >= 2

\* both requests are answered and the user owns two rows of the name
C9_Witness ==
    \E n \in Names :
        /\ workers[1].pc = "done" /\ workers[2].pc = "done"
        /\ workers[1].user = workers[2].user
        /\ n \in workers[1].missed \cap workers[2].missed
        /\ \E t1, t2 \in SameNameRows(workers[1].user, n) : t1.id # t2.id

====
